---- MODULE Spec2Model ----
(***************************************************************************)
(* BuildMeC (src/buildmec.py): one invocation of the command line tool.    *)
(* Text is modelled as a sequence of one-character strings, so that        *)
(* str.lower, str.split, str.join and the shell's word splitting are       *)
(* computed character by character as Python and /bin/sh compute them.     *)
(***************************************************************************)
EXTENDS Integers, Sequences, FiniteSets, TLC

(* ---------------------------- bounds ---------------------------------- *)
MaxSources == 2
MaxArgs == 2

(* ------------------------- text primitives ---------------------------- *)
UPPER == <<"A","B","C","D","E","F","G","H","I","J","K","L","M",
           "N","O","P","Q","R","S","T","U","V","W","X","Y","Z">>
LOWER == <<"a","b","c","d","e","f","g","h","i","j","k","l","m",
           "n","o","p","q","r","s","t","u","v","w","x","y","z">>

LowerChar(c) ==
    IF \E i \in 1..Len(UPPER) : UPPER[i] = c
    THEN LOWER[CHOOSE i \in 1..Len(UPPER) : UPPER[i] = c]
    ELSE c

\* str.lower()
Lower(s) == [i \in 1..Len(s) |-> LowerChar(s[i])]

RECURSIVE SplitFrom(_, _, _, _)
SplitFrom(s, sep, i, cur) ==
    IF i > Len(s) THEN <<cur>>
    ELSE IF s[i] = sep THEN <<cur>> \o SplitFrom(s, sep, i + 1, <<>>)
    ELSE SplitFrom(s, sep, i + 1, Append(cur, s[i]))

\* str.split(sep) with a one-character separator: empty fields are kept
Split(s, sep) == SplitFrom(s, sep, 1, <<>>)

RECURSIVE Join(_, _)
\* sep.join(parts)
Join(parts, sep) ==
    IF Len(parts) = 0 THEN <<>>
    ELSE IF Len(parts) = 1 THEN parts[1]
    ELSE parts[1] \o sep \o Join(Tail(parts), sep)

\* str.rsplit('.', 1)[0]
RSplitDotHead(s) ==
    IF \E i \in 1..Len(s) : s[i] = "."
    THEN LET last == CHOOSE i \in 1..Len(s) :
                        s[i] = "." /\ \A j \in (i+1)..Len(s) : s[j] # "."
         IN SubSeq(s, 1, last - 1)
    ELSE s

\* list.remove(x) for an x that occurs in the list: drops the first occurrence
RemoveFirst(l, x) ==
    LET k == CHOOSE i \in 1..Len(l) : l[i] = x /\ \A j \in 1..(i-1) : l[j] # x
    IN SubSeq(l, 1, k - 1) \o SubSeq(l, k + 1, Len(l))

Contains(l, x) == \E i \in 1..Len(l) : l[i] = x

\* /bin/sh splitting a command line made of letters, '.', '/', '-' and
\* blanks into words: runs of blanks separate words, no word is empty
ShellWords(cmd) == SelectSeq(Split(cmd, " "), LAMBDA w : w # <<>>)

(* --------------------------- constants -------------------------------- *)
CONFIG_NAME == <<"b","u","i","l","d","m","e","c",".","j","s","o","n">>
BIN_PATH == <<"b","i","n","/">>
SRC_PATH == <<"s","r","c","/">>

GPP == <<"g","+","+">>
GCC == <<"g","c","c">>
CLANG == <<"c","l","a","n","g">>
EXT_CPP == <<"c","p","p">>
EXT_C == <<"c">>
MAIN == <<"m","a","i","n">>
MAIN_CPP == <<"m","a","i","n",".","c","p","p">>
MAIN_C == <<"m","a","i","n",".","c">>
UTIL_CPP == <<"u","t","i","l",".","c","p","p">>
OBJ_DIR == <<"o","b","j","/">>
OPT_C == <<"-","c">>
OPT_O == <<"-","o">>
CHMOD == <<"c","h","m","o","d">>
PLUS_X == <<"+","x">>
YES == <<"y","e","s">>
CPP_DEFAULT == <<"C","P","P">>

\* TOOLCHAINS: kind -> Toolchain(extension, toolchain)
TOOLCHAINS == [cpp |-> [extension |-> EXT_CPP, toolchain |-> GPP],
               c   |-> [extension |-> EXT_C,   toolchain |-> GCC]]

Kinds == {"cpp", "c"}

(* --------------------- configuration manager -------------------------- *)
\* the empty dict {} returned when there is no config file
EmptyConfig == <<>>

\* write_default_config: the data dumped to buildmec.json
write_default_config(toolchain) ==
    LET tc == TOOLCHAINS[toolchain]
        default_out == ("FINAL" :> MAIN) @@ ("obj-path" :> <<>>)
        default_data == ("bin-path" :> BIN_PATH) @@ ("src-path" :> SRC_PATH)
                        @@ ("sources" :> << MAIN \o <<".">> \o tc.extension >>)
                        @@ ("out" :> default_out)
    IN IF toolchain = "c"
       THEN default_data @@ ("comp" :> ("toolchain" :> tc.toolchain))
       ELSE default_data

\* write_starter_code: the file written and what is written into it
write_starter_code(toolchain) ==
    LET tc == TOOLCHAINS[toolchain]
    IN [path |-> SRC_PATH \o MAIN \o <<".">> \o tc.extension,
        content |-> [include |-> IF toolchain = "cpp" THEN "<iostream>" ELSE "<stdio.h>",
                     mainsig |-> IF toolchain = "cpp" THEN "int main()"
                                 ELSE "int main(int argc, char *argv[])",
                     stdout  |-> IF toolchain = "cpp" THEN "std::cout" ELSE "printf"]]

\* reset_json comparing the answer without lowering it
reset_json_exact(toolchain, ans, cfgFile) ==
    IF ans = YES
    THEN [exists |-> TRUE, data |-> write_default_config(toolchain)]
    ELSE cfgFile

\* reset_json: the config file after the prompt was answered with ans
reset_json(toolchain, ans, cfgFile) ==
    IF Lower(ans) = YES
    THEN [exists |-> TRUE, data |-> write_default_config(toolchain)]
    ELSE cfgFile

\* get_build_config: the loaded data and whether the error was printed
get_build_config(cfgFile) ==
    IF ~cfgFile.exists
    THEN [data |-> EmptyConfig, error |-> TRUE]
    ELSE [data |-> cfgFile.data, error |-> FALSE]

get_out_path(config, ot) == config["bin-path"] \o config["out"][ot]

\* init_dirs: the directories that exist afterwards
init_dirs(config, dirs) ==
    dirs \cup {config["src-path"], config["bin-path"], get_out_path(config, "obj-path")}

\* the condition guarding write_starter_code in initialize
starter_missing(toolchain, files) == (SRC_PATH \o MAIN_CPP) \notin DOMAIN files

\* initialize, up to its quit(): the file system it leaves behind
initialize(toolchain, ans, cfgFile, files, dirs) ==
    LET cfg1 == IF cfgFile.exists
                THEN reset_json(toolchain, ans, cfgFile)
                ELSE [exists |-> TRUE, data |-> write_default_config(toolchain)]
        dirs1 == init_dirs(get_build_config(cfg1).data, dirs)
        st == write_starter_code(toolchain)
        files1 == IF starter_missing(toolchain, files)
                  THEN [p \in DOMAIN files \cup {st.path} |->
                            IF p = st.path THEN st.content ELSE files[p]]
                  ELSE files
    IN [cfgFile |-> cfg1, dirs |-> dirs1, files |-> files1]

initialize_exit_returns == "initialized"

\* where control goes at the end of initialize: quit() ends the process
initialize_exit == "quit"

(* -------------------------- compiler driver --------------------------- *)
valid_toolchains == {TOOLCHAINS[k].toolchain : k \in Kinds}

DictGet(d, k, default) == IF k \in DOMAIN d THEN d[k] ELSE default

\* get_tool_chain dropping the flags of an override with an unknown name
get_tool_chain_dropflags(config) ==
    IF "comp" \in DOMAIN config
    THEN LET comp == config["comp"]
             tool == DictGet(comp, "toolchain", CPP_DEFAULT)
             flags == DictGet(comp, "flags", <<>>)
         IN IF tool \in valid_toolchains THEN << tool, Split(flags, " ") >>
            ELSE << GPP, <<>> >>
    ELSE << GPP, <<>> >>

\* get_tool_chain: <<program name, flag list>>
get_tool_chain(config) ==
    IF "comp" \in DOMAIN config
    THEN LET comp == config["comp"]
             tool == DictGet(comp, "toolchain", CPP_DEFAULT)
             flags == DictGet(comp, "flags", <<>>)
         IN << IF tool \in valid_toolchains THEN tool ELSE GPP, Split(flags, " ") >>
    ELSE << GPP, <<>> >>

\* just_filename
just_filename(file_path) ==
    LET parts == Split(file_path, "/")
    IN RSplitDotHead(parts[Len(parts)])

\* compile_one placing the source before the flags
compile_one_srcfirst(bash_cmd, source_with_path, obj_path) ==
    LET o_path == obj_path \o just_filename(source_with_path) \o <<".","o">>
    IN [o_path |-> o_path,
        cmd |-> << bash_cmd[1], source_with_path >> \o Tail(bash_cmd)
                \o << OPT_C, OPT_O, o_path >>]

\* one iteration of the loop of compile_o for a source that exists:
\* the object path appended and the command executed
compile_one(bash_cmd, source_with_path, obj_path) ==
    LET o_path == obj_path \o just_filename(source_with_path) \o <<".","o">>
    IN [o_path |-> o_path,
        cmd |-> bash_cmd \o << source_with_path, OPT_C, OPT_O, o_path >>]

RECURSIVE compile_o_loop(_, _, _, _, _, _, _)
\* the loop of compile_o from the i-th source on; ok is the set of positions
\* whose compiler invocation succeeds in writing its object file
compile_o_loop(sources, bash_cmd, src_path, obj_path, files, ok, i) ==
    IF i > Len(sources)
    THEN [objs |-> <<>>, calls |-> <<>>, warns |-> <<>>, made |-> {}]
    ELSE LET rest == compile_o_loop(sources, bash_cmd, src_path, obj_path, files, ok, i + 1)
             source_with_path == src_path \o sources[i]
             one == compile_one(bash_cmd, source_with_path, obj_path)
         IN IF source_with_path \in DOMAIN files
            THEN [objs |-> <<one.o_path>> \o rest.objs,
                  calls |-> <<one.cmd>> \o rest.calls,
                  warns |-> rest.warns,
                  made |-> (IF i \in ok THEN {one.o_path} ELSE {}) \cup rest.made]
            ELSE [objs |-> rest.objs,
                  calls |-> rest.calls,
                  warns |-> <<source_with_path>> \o rest.warns,
                  made |-> rest.made]

\* compile_o walking the declared sources in reversed order
compile_o_reversed(sources, bash_cmd, src_path, obj_path, files, ok) ==
    LET n == Len(sources)
    IN compile_o_loop([i \in 1..n |-> sources[n + 1 - i]], bash_cmd, src_path,
                      obj_path, files, {n + 1 - i : i \in ok}, 1)

\* compile_o: the objects returned, the commands executed, the warnings
\* printed and the object files the compiler wrote
compile_o(sources, bash_cmd, src_path, obj_path, files, ok) ==
    compile_o_loop(sources, bash_cmd, src_path, obj_path, files, ok, 1)

\* bash_cmd as built by compile before the sources are compiled
base_cmd(toolchain, flags) ==
    LET bash_cmd == <<toolchain>> \o flags
    IN IF Contains(flags, <<>>) THEN RemoveFirst(bash_cmd, <<>>) ELSE bash_cmd

\* the link command line
link_cmd(bash_cmd, compiled, bin_out) == bash_cmd \o compiled \o << OPT_O, bin_out >>

compile_quits_never(compiled) == FALSE

\* whether compile stops the process after compile_o
compile_quits(compiled) == compiled = <<>>

\* compile: everything it does. ok: positions whose compiler invocation
\* succeeds; linkOk: whether the linker succeeds when all its inputs exist
compile(config, files, dirs, objFiles, binFiles, ok, linkOk) ==
    LET build_order == config["sources"]
        src_path == config["src-path"]
        obj_path == get_out_path(config, "obj-path")
        bin_out == get_out_path(config, "FINAL")
        dirs1 == init_dirs(config, dirs)
        tf == get_tool_chain(config)
        bash_cmd == base_cmd(tf[1], tf[2])
        r == compile_o(build_order, bash_cmd, src_path, obj_path, files, ok)
        objFiles1 == objFiles \cup r.made
        linked == linkOk /\ \A i \in 1..Len(r.objs) : r.objs[i] \in objFiles1
        binFiles1 == IF linked THEN binFiles \cup {bin_out} ELSE binFiles
    IN IF compile_quits(r.objs)
       THEN [quit |-> TRUE, dirs |-> dirs1, tool |-> tf, compiled |-> r.objs,
             calls |-> r.calls, warns |-> r.warns, errors |-> <<"NoSources">>,
             objFiles |-> objFiles1, binFiles |-> binFiles]
       ELSE [quit |-> FALSE, dirs |-> dirs1, tool |-> tf, compiled |-> r.objs,
             calls |-> r.calls \o << link_cmd(bash_cmd, r.objs, bin_out) >>
                      \o (IF bin_out \in binFiles1
                          THEN << << CHMOD, PLUS_X, bin_out >> >> ELSE <<>>),
             warns |-> r.warns, errors |-> <<>>,
             objFiles |-> objFiles1, binFiles |-> binFiles1]

(* ------------------------------ runner -------------------------------- *)
\* run_project: the command line handed to os.system, or the KeyError
\* raised by get_out_path on a config without 'bin-path'
run_project(config, argv) ==
    IF "bin-path" \notin DOMAIN config
    THEN [raised |-> TRUE, cmd |-> <<>>]
    ELSE [raised |-> FALSE,
          cmd |-> <<".","/">> \o get_out_path(config, "FINAL") \o <<" ">>
                  \o Join(argv, <<" ">>)]

(* ------------------------- input universes ---------------------------- *)
RECURSIVE SeqsUpTo(_, _)
\* all sequences over S of length at most n
SeqsUpTo(S, n) ==
    IF n = 0 THEN {<<>>}
    ELSE LET shorter == SeqsUpTo(S, n - 1)
         IN shorter \cup {Append(q, x) : q \in shorter, x \in S}

SourceNames == {MAIN_CPP, MAIN_C, UTIL_CPP}
SourceLists == SeqsUpTo(SourceNames, MaxSources)

FLAGS_O2 == <<"-","O","2">>
FLAGS_WALL_G == <<"-","W","a","l","l"," ","-","g">>
FLAGS_GAP == <<"-","g"," "," ","-","O","2">>

\* the "comp" entries a user may have written into buildmec.json
CompChoices == { ("toolchain" :> GCC),
                 ("toolchain" :> GPP) @@ ("flags" :> FLAGS_WALL_G),
                 ("toolchain" :> CLANG) @@ ("flags" :> FLAGS_O2),
                 ("flags" :> FLAGS_GAP),
                 ("toolchain" :> GCC) @@ ("flags" :> <<>>) }

UserConfig(sources, objp) ==
    ("bin-path" :> BIN_PATH) @@ ("src-path" :> SRC_PATH) @@ ("sources" :> sources)
    @@ ("out" :> (("FINAL" :> MAIN) @@ ("obj-path" :> objp)))

UserConfigs ==
    LET plain == {UserConfig(l, o) : l \in SourceLists, o \in {<<>>, OBJ_DIR}}
    IN plain \cup {c @@ ("comp" :> k) : c \in plain, k \in CompChoices}

NoFile == [exists |-> FALSE, data |-> EmptyConfig]
ConfigFiles == {NoFile} \cup {[exists |-> TRUE, data |-> c] : c \in UserConfigs}

UserContent == [include |-> "user", mainsig |-> "user", stdout |-> "user"]
SourceDirs == {[p \in {SRC_PATH \o n : n \in S} |-> UserContent] : S \in SUBSET SourceNames}

Answers == { <<"y","e","s">>, <<"Y","E","S">>, <<"Y","e","s">>, <<"y","E","s">>,
             <<"n","o">>, <<"y">>, <<>>, <<"y","e","s"," ">>, <<"y","e","s","s">> }

ArgWords == { <<"a">>, <<"a"," ","b">>, <<>> }
ArgLists == SeqsUpTo(ArgWords, MaxArgs)

(* ---------------------------- the program ----------------------------- *)
VARIABLES pc, args, cfgFile, files, dirs, objFiles, binFiles,
          config, prompt, tool, compiled, calls, warns, errors,
          forwarded, child, ops, cfgFile0, files0

vars == << pc, args, cfgFile, files, dirs, objFiles, binFiles,
           config, prompt, tool, compiled, calls, warns, errors,
           forwarded, child, ops, cfgFile0, files0 >>

Init ==
    /\ pc = "start"
    /\ args \in [init : {"none", "cpp", "c"}, compile : BOOLEAN, run : BOOLEAN]
    /\ cfgFile \in ConfigFiles
    /\ files \in SourceDirs
    /\ dirs = IF DOMAIN files = {} THEN {} ELSE {SRC_PATH}
    /\ objFiles = {}
    /\ binFiles = {}
    /\ config = EmptyConfig
    /\ prompt = [asked |-> FALSE, ans |-> <<>>]
    /\ tool = << <<>>, <<>> >>
    /\ compiled = <<>>
    /\ calls = <<>>
    /\ warns = <<>>
    /\ errors = <<>>
    /\ forwarded = <<>>
    /\ child = [started |-> FALSE, argv |-> <<>>]
    /\ ops = <<>>
    /\ cfgFile0 = cfgFile
    /\ files0 = files

\* main, line 171-172: initialize(args.init.lower())
Initialize ==
    /\ pc = "start"
    /\ args.init # "none"
    /\ \E a \in Answers :
         LET asked == cfgFile.exists
             r == initialize(args.init, a, cfgFile, files, dirs)
         IN /\ (~asked => a = <<>>)
            /\ prompt' = [asked |-> asked, ans |-> a]
            /\ cfgFile' = r.cfgFile
            /\ files' = r.files
            /\ dirs' = r.dirs
    /\ ops' = Append(ops, "init")
    /\ pc' = initialize_exit
    /\ UNCHANGED << args, objFiles, binFiles, config, tool, compiled, calls,
                    warns, errors, forwarded, child, cfgFile0, files0 >>

\* main, line 174: config = get_build_config()
LoadConfig ==
    /\ pc = (IF args.init = "none" THEN "start" ELSE "initialized")
    /\ LET r == get_build_config(cfgFile)
       IN /\ config' = r.data
          /\ errors' = IF r.error THEN Append(errors, "NotInitialized") ELSE errors
    /\ ops' = Append(ops, "load")
    /\ pc' = "loaded"
    /\ UNCHANGED << args, cfgFile, files, dirs, objFiles, binFiles, prompt, tool,
                    compiled, calls, warns, forwarded, child, cfgFile0, files0 >>

\* the condition of line 176: args.compile and config
compile_requested == args.compile /\ DOMAIN config # {}

\* main, line 176-177: compile(config)
Compile ==
    /\ pc = "loaded"
    /\ compile_requested
    /\ \E ok \in SUBSET (1..Len(config["sources"])), linkOk \in BOOLEAN :
         LET r == compile(config, files, dirs, objFiles, binFiles, ok, linkOk)
         IN /\ dirs' = r.dirs
            /\ tool' = r.tool
            /\ compiled' = r.compiled
            /\ calls' = calls \o r.calls
            /\ warns' = warns \o r.warns
            /\ errors' = errors \o r.errors
            /\ objFiles' = r.objFiles
            /\ binFiles' = r.binFiles
            /\ pc' = IF r.quit THEN "quit" ELSE "compiled"
    /\ ops' = Append(ops, "compile")
    /\ UNCHANGED << args, cfgFile, files, config, prompt, forwarded, child,
                    cfgFile0, files0 >>

\* control has reached line 180
at_run == pc = "compiled" \/ (pc = "loaded" /\ ~compile_requested)

\* main, line 180-181: run_project(config, args.run)
RunProject ==
    /\ at_run
    /\ args.run
    /\ \E argv \in ArgLists :
         LET r == run_project(config, argv)
         IN /\ forwarded' = argv
            /\ IF r.raised
               THEN /\ pc' = "crashed"
                    /\ child' = child
               ELSE /\ pc' = "done"
                    /\ child' = [started |-> TRUE, argv |-> ShellWords(r.cmd)]
    /\ ops' = Append(ops, "run")
    /\ UNCHANGED << args, cfgFile, files, dirs, objFiles, binFiles, config, prompt,
                    tool, compiled, calls, warns, errors, cfgFile0, files0 >>

\* main returns without running the binary (args.run is False)
Finish ==
    /\ at_run
    /\ ~args.run
    /\ pc' = "done"
    /\ UNCHANGED << args, cfgFile, files, dirs, objFiles, binFiles, config, prompt,
                    tool, compiled, calls, warns, errors, forwarded, child, ops,
                    cfgFile0, files0 >>

Next == Initialize \/ LoadConfig \/ Compile \/ RunProject \/ Finish

Spec == Init /\ [][Next]_vars

Terminated == pc \in {"quit", "done", "crashed"}

(* ============================ properties ============================== *)
Acted(op) == Contains(ops, op)
InitRequested == args.init # "none"

(* ------------------------------- C1 ----------------------------------- *)
\* C1 as stated: when init is requested together with compile and/or run,
\* the config is loaded after init, compile follows (if requested and a
\* config is present) and run comes last (if requested).
C1_Original ==
    (Terminated /\ InitRequested /\ (args.compile \/ args.run)) =>
        /\ Len(ops) >= 2 /\ ops[1] = "init" /\ ops[2] = "load"
        /\ (args.compile /\ cfgFile.exists) => (Len(ops) >= 3 /\ ops[3] = "compile")
        /\ (args.run /\ ~Contains(errors, "NoSources")) => ops[Len(ops)] = "run"

C1_Expected ==
    IF InitRequested THEN <<"init">>
    ELSE <<"load">> \o (IF args.compile /\ cfgFile.exists THEN <<"compile">> ELSE <<>>)
                    \o (IF args.run THEN <<"run">> ELSE <<>>)

\* C1 (amended): an invocation that requests init performs init only and
\* then exits; without init the order is load config, then compile (if
\* requested and a config is present), then run (if requested), run being
\* left out only when compile aborted the build.
C1_Order ==
    /\ Len(ops) <= Len(C1_Expected)
    /\ ops = SubSeq(C1_Expected, 1, Len(ops))
    /\ Terminated =>
         \/ ops = C1_Expected
         \/ Contains(errors, "NoSources") /\ ops = <<"load", "compile">>

C1_Witness ==
    /\ pc = "quit" /\ InitRequested /\ args.compile /\ args.run
    /\ ops = <<"init">>

(* ------------------------------- C2 ----------------------------------- *)
\* C2: once NotInitialized was reported, no compiler is invoked, the binary
\* is not run and no exception escapes.
C2_Original ==
    Contains(errors, "NotInitialized") =>
        /\ pc # "crashed"
        /\ calls = <<>>
        /\ ~child.started

(* ------------------------------- C3 ----------------------------------- *)
\* C3: init leaves the content of every source file that existed before it
\* unchanged.
C3_Original ==
    Acted("init") => \A p \in DOMAIN files0 : p \in DOMAIN files /\ files[p] = files0[p]

(* ------------------------------- C4 ----------------------------------- *)
IsYes(a) ==
    /\ Len(a) = 3
    /\ a[1] \in {"y", "Y"} /\ a[2] \in {"e", "E"} /\ a[3] \in {"s", "S"}

\* C4: after the reset prompt, the config file is the default config of the
\* requested toolchain if the answer was a case-insensitive "yes", and is
\* the file as it was before otherwise.
C4_ResetOnlyOnYes ==
    prompt.asked =>
        IF IsYes(prompt.ans)
        THEN cfgFile = [exists |-> TRUE, data |-> write_default_config(args.init)]
        ELSE cfgFile = cfgFile0

C4_Witness ==
    /\ prompt.asked /\ prompt.ans = <<"Y","E","S">>
    /\ cfgFile # cfgFile0 /\ cfgFile.data["sources"] = << MAIN_C >>

(* ------------------------------- C5 ----------------------------------- *)
Stem(name) ==
    CASE name = MAIN_CPP -> MAIN
      [] name = MAIN_C -> MAIN
      [] name = UTIL_CPP -> <<"u","t","i","l">>

OnDisk(name) == (config["src-path"] \o name) \in DOMAIN files
PresentSources == SelectSeq(config["sources"], OnDisk)
AbsentSources == SelectSeq(config["sources"], LAMBDA n : ~OnDisk(n))
ExpectedObj(name) ==
    config["bin-path"] \o config["out"]["obj-path"] \o Stem(name) \o <<".","o">>
CompileCalls == SelectSeq(calls, LAMBDA c : Contains(c, OPT_C))

C6_NoSourcesAborts ==
    (Acted("compile") /\ PresentSources = <<>>) =>
        /\ compiled = <<>>
        /\ Contains(errors, "NoSources")
        /\ pc = "quit"
        /\ calls = <<>>
        /\ ~Acted("run") /\ ~child.started

C6_Witness ==
    /\ Acted("compile") /\ args.run
    /\ Len(config["sources"]) = 2 /\ PresentSources = <<>>
    /\ pc = "quit"

(* ------------------------------- C7 ----------------------------------- *)
HasOverride == "comp" \in DOMAIN config
OverrideName == IF "toolchain" \in DOMAIN config["comp"]
                THEN config["comp"]["toolchain"] ELSE CPP_DEFAULT
OverrideFlagText == IF "flags" \in DOMAIN config["comp"]
                    THEN config["comp"]["flags"] ELSE <<>>
KnownName(n) == n = GPP \/ n = GCC
\* l is text cut at each single blank
IsSplitOf(l, text) ==
    /\ Len(l) >= 1
    /\ Join(l, <<" ">>) = text
    /\ \A i \in 1..Len(l) : ~Contains(l[i], " ")

\* C7 as stated: a known override name is used with the override's flags;
\* every other config resolves to (g++, no flags).
C7_Original ==
    Acted("compile") =>
        IF HasOverride /\ KnownName(OverrideName)
        THEN tool[1] = OverrideName /\ IsSplitOf(tool[2], OverrideFlagText)
        ELSE tool = << GPP, <<>> >>

\* C7 (amended): with an override, the program is the override's name if
\* that is g++ or gcc and g++ otherwise, and the flags are the override's
\* flag text cut at single blanks whether or not the name is known; only a
\* config without override resolves to (g++, empty list).
C7_Resolve ==
    Acted("compile") =>
        IF HasOverride
        THEN /\ tool[1] = (IF KnownName(OverrideName) THEN OverrideName ELSE GPP)
             /\ IsSplitOf(tool[2], OverrideFlagText)
        ELSE tool = << GPP, <<>> >>

C7_Witness ==
    /\ Acted("compile") /\ HasOverride
    /\ OverrideName = CLANG
    /\ tool = << GPP, << FLAGS_O2 >> >>

(* ------------------------------- C8 ----------------------------------- *)
\* the flags that reach the command line: the resolved flags without their
\* first empty entry
CmdFlags == IF Contains(tool[2], <<>>) THEN RemoveFirst(tool[2], <<>>) ELSE tool[2]
BinOut == config["bin-path"] \o config["out"]["FINAL"]

\* C8 as stated: compile command = program, source, flags, -c, -o, object;
\* link command = program, objects, flags, -o, output.
C8_Original ==
    (Acted("compile") /\ compiled # <<>>) =>
        /\ \A i \in 1..Len(compiled) :
               calls[i] = << tool[1], config["src-path"] \o PresentSources[i] >>
                          \o CmdFlags \o << OPT_C, OPT_O, compiled[i] >>
        /\ calls[Len(compiled) + 1] =
               <<tool[1]>> \o compiled \o CmdFlags \o << OPT_O, BinOut >>

\* C8 (amended): compile command = program, flags, source, -c, -o, object;
\* link command = program, flags, objects, -o, output; the flags being the
\* resolved flag list without its first empty entry.
C8_Layout ==
    (Acted("compile") /\ compiled # <<>>) =>
        /\ Len(calls) >= Len(compiled) + 1
        /\ \A i \in 1..Len(compiled) :
               calls[i] = <<tool[1]>> \o CmdFlags
                          \o << config["src-path"] \o PresentSources[i],
                                OPT_C, OPT_O, compiled[i] >>
        /\ calls[Len(compiled) + 1] =
               <<tool[1]>> \o CmdFlags \o compiled \o << OPT_O, BinOut >>

C8_Witness ==
    /\ Acted("compile") /\ Len(compiled) = 2
    /\ CmdFlags = << <<"-","W","a","l","l">>, <<"-","g">> >>
    /\ Len(calls) = 4

(* ------------------------------- C9 ----------------------------------- *)
\* C9: the child process gets the binary path followed by exactly the
\* forwarded arguments, same count, same order, same text.
C9_Original ==
    child.started => child.argv = << <<".","/">> \o BinOut >> \o forwarded

(* ------------------------------- C10 ---------------------------------- *)
LinkCalls == SelectSeq(calls, LAMBDA c : Len(c) >= 1 /\ c[1] # CHMOD /\ ~Contains(c, OPT_C))

\* C10: every object path returned by compile_o was produced by its
\* compiler invocation, and nothing is linked when no object was produced.
C10_Original ==
    Acted("compile") =>
        /\ \A i \in 1..Len(compiled) : compiled[i] \in objFiles
        /\ (objFiles = {}) => LinkCalls = <<>>

====
